---- MODULE Spec2Model ----
(***************************************************************************)
(* A model of the plato symbolic-function layer.                           *)
(*                                                                         *)
(*   SpecCompiled  - AutoCompilingFunction (plato/interfaces/decorators.py)*)
(*                   one compiled callable: __call__, set_debug_variables, *)
(*                   get_debug_values, add_callback.                       *)
(*   SpecSymbolic  - the Symbolic*Function adapters: direct invocation,    *)
(*                   the symbolic_standard / symbolic_stateless views,     *)
(*                   locals() and the process-wide profile hook, executed  *)
(*                   frame by frame.                                       *)
(*                                                                         *)
(* Python values are records carrying a tag field t, so that None, handles *)
(* and containers can be compared with one another.                        *)
(***************************************************************************)
EXTENDS Integers, Sequences, FiniteSets, TLC

VARIABLES
    \* ---- AutoCompilingFunction: the fields set by __init__ (lines 317-325)
    mode,                       \* self._mode
    cast_floats_to_floatX,      \* self._cast_floats_to_floatX
    fcn,                        \* self._fcn: the symbolic function compiled
    compiled_fcn,               \* self._compiled_fcn
    debug_variable_getter,      \* self._debug_variable_getter
    debug_values,               \* self._debug_values
    callbacks,                  \* self._callbacks
    \* ---- attributes created by the first __call__ (lines 351-367)
    there_are_debug_variables,  \* self._there_are_debug_variables
    single_output,              \* self._single_output
    debug_variable_keys,        \* self._debug_variable_keys
    \* ---- the world the callable acts on
    fcn_locals,                 \* self._fcn._locals of the wrapped definition
    shared,                     \* current value of every shared variable
    floatX,                     \* theano.config.floatX
    \* ---- observation of the run (history, not program state)
    nCalls,                     \* __call__ invocations started
    nOk,                        \* __call__ invocations that returned normally
    nBuilds,                    \* times self._fcn(*tensor_args) was executed
    okBuilds,                   \* ... of them inside a call that returned normally
    nCompiles,                  \* times theano.function(...) was executed
    firstOk,                    \* what the first normally returning call saw
    lastOk,                     \* what the latest normally returning call saw
    last,                       \* outcome of the most recent operation
    input_handles               \* observation: tensor_args of the latest graph-building call

VARIABLES
    \* ---- the annotated definitions and their adapters
    scenario,   \* the annotated definition: its shape, form, and whether its body nests
    objs,       \* the adapters alive (BaseSymbolicFunction instances), by identity
    profile,    \* sys.setprofile: the adapter whose tracer is installed, 0 for None
    stack,      \* the Python frames of the operation in progress, innermost last
    exc,        \* the exception propagating, "" for none
    cur,        \* observation of the operation in progress
    result      \* outcome of the most recent completed operation

VARIABLES
    \* ---- plotting/data_conversion.py: one RecordBuffer
    buffer_len, \* self._buffer_len
    buffer,     \* self._buffer
    ix,         \* self._ix
    pushed,     \* observation: the samples pushed so far, in order
    pushRet,    \* what the most recent push returned
    \* ---- one memoize-wrapped function
    lookup,     \* the wrapper's cache, by argument tuple
    memoLog,    \* observation: per argument tuple, calls and invocations
    memoRet,    \* outcome of the most recent call of the wrapper
    \* ---- the tiling functions applied to one batch
    batch,      \* the shape (n, h, w) of the batch
    tileRet,    \* what vector_length_to_tile_dims returned
    gridRet,    \* what put_data_in_grid returned
    content,    \* the batch's element type, and whether its values are all equal
    scaleRet,   \* what scale_data_to_8_bit returned
    gridArgs,   \* grid_shape and boundary_width handed to the slice planner
    planRet     \* what the slice planner returned

bufferVars == << buffer_len, buffer, ix, pushed, pushRet >>
memoVars == << lookup, memoLog, memoRet >>
gridVars == << batch, tileRet, gridRet, content, scaleRet, gridArgs, planRet >>
plottingVars == << bufferVars, memoVars, gridVars >>

symbolicVars == << scenario, objs, profile, stack, exc, cur, result >>

VARIABLES
    \* ---- one expression graph searched by find_shared_ancestors
    graph,      \* the nodes, each with its kind and its parents
    query,      \* the handle the search starts from
    found       \* what find_shared_ancestors returned

graphVars == << graph, query, found >>

compiledVars ==
    << mode, cast_floats_to_floatX, fcn, compiled_fcn, debug_variable_getter,
       debug_values, callbacks, there_are_debug_variables, single_output,
       debug_variable_keys, fcn_locals, shared, floatX,
       nCalls, nOk, nBuilds, okBuilds, nCompiles, firstOk, lastOk, last,
       input_handles >>

---------------------------------------------------------------------------
(* Bounds of the model. *)

MaxCalls == 3        \* __call__ invocations explored per compiled callable
MaxCallbacks == 1    \* callbacks registered per compiled callable
MaxAdapters == 2     \* adapters the caller obtains by accesses and views
MaxBufferLen == 3    \* capacity of the RecordBuffer
MaxPushes == 5       \* samples pushed to the RecordBuffer
MaxMemoCalls == 3    \* calls of the memoized function per argument tuple
MaxTiles == 10       \* tiles in a batch
MaxSide == 3         \* height and width of a tile
MaxPlanTiles == 5    \* tiles in a batch handed to the slice planner
MaxPlanSide == 2     \* height and width of those tiles
MaxGridSide == 3     \* rows and columns of an explicit grid_shape
MaxBorder == 2       \* boundary_width
MaxNodes == 4        \* nodes of an expression graph
MaxInputs == 2       \* inputs of one operation of the graph

---------------------------------------------------------------------------
(* Python values. *)

None == [t |-> "None"]
Unset == [t |-> "unset"]      \* an attribute that does not exist yet

Modes == {"run", "test_and_run", "debug", "omniscent"}
ModeArgs == Modes \cup {"tr"}

\* __init__, lines 314-316: the alias 'tr' and the admitted modes.
NormalizeMode(m) == IF m = "tr" THEN "test_and_run" ELSE m

Shapes == {"stateless", "updater", "standard"}
SharedVars == {"w", "b"}
CallbackIds == {"c1", "c2"}

\* The symbolic functions a callable is compiled from: the adapter class and
\* what the wrapped definition returns (number of outputs, declared updates).
Fcns ==
    { [shape |-> "stateless", nout |-> 1, ups |-> <<>>],
      [shape |-> "updater", nout |-> 0, ups |-> <<"w", "b">>],
      [shape |-> "standard", nout |-> 1, ups |-> <<"w">>],
      [shape |-> "standard", nout |-> 2, ups |-> <<>>] }

\* Numeric arguments: how Python and numpy see them, and a content.
CallData ==
    { [py |-> "int", ndim |-> 0, dtype |-> "int64", val |-> 0],
      [py |-> "ndarray", ndim |-> 1, dtype |-> "float64", val |-> 1] }

\* Arguments of more kinds: Python scalars, numpy scalars and arrays of
\* several element types.
TensorData ==
    { [py |-> "int", ndim |-> 0, dtype |-> "int64", val |-> 0],
      [py |-> "float", ndim |-> 0, dtype |-> "float64", val |-> 1],
      [py |-> "npscalar", ndim |-> 0, dtype |-> "float32", val |-> 1],
      [py |-> "ndarray", ndim |-> 1, dtype |-> "float64", val |-> 1],
      [py |-> "ndarray", ndim |-> 2, dtype |-> "float32", val |-> 0],
      [py |-> "ndarray", ndim |-> 1, dtype |-> "int32", val |-> 1] }

\* theano.config.floatX
FloatXs == {"float32", "float64"}

---------------------------------------------------------------------------
(* _data_to_tensor, lines 449-458. *)

\* np.isscalar(data)
IsScalar(data) == data.py \in {"int", "float", "bool", "npscalar"}

\* isinstance(data, float): Python floats, and numpy.float64 which derives from it
IsPyFloat(data) ==
    data.py = "float" \/ (data.py = "npscalar" /\ data.dtype = "float64")

\* isinstance(data, int): Python ints and bools, and the numpy scalar deriving from int
IsPyInt(data) ==
    data.py \in {"int", "bool"} \/ (data.py = "npscalar" /\ data.dtype = "int64")

\* data.dtype == 'float': numpy reads 'float' as float64
DtypeIsFloat(data) == data.dtype = "float64"

DataToTensor(data, cast, test, fx) ==
    [ t |-> "tensor",
      ndim |-> IF IsScalar(data) THEN 0 ELSE data.ndim,
      dtype |-> IF cast /\ (IsPyFloat(data) \/ (data.py = "ndarray" /\ DtypeIsFloat(data)))
                  THEN fx
                ELSE IF IsPyInt(data) THEN "int64"
                ELSE IF IsPyFloat(data) THEN "float64"
                ELSE data.dtype,
      test_value |-> IF test THEN data ELSE None ]

\* line 338: the modes in which input handles carry the argument as test value
TestModes == {"test_and_run", "debug", "omniscent"}

TensorType(tensor) == << tensor.ndim, tensor.dtype >>

---------------------------------------------------------------------------
(* Handles, containers and the values the compiled graph computes. *)

Sym(k) == [t |-> "var", name |-> k]          \* a theano Variable
SharedHandle(v) == [t |-> "shared", name |-> v] \* a SharedVariable (also a Variable)
Obj == [t |-> "object"]                       \* any non-symbolic Python object
Tuple(items) == [t |-> "tuple", items |-> items]
List(items) == [t |-> "list", items |-> items]

\* isinstance(v, Variable)
IsVariable(v) == v.t \in {"var", "shared"}
\* isinstance(v, (list, tuple))
IsListOrTuple(v) == v.t \in {"list", "tuple"}

OutName(i) == IF i = 1 THEN "out1" ELSE "out2"

\* What the wrapped definition returns through its adapter when it conforms to
\* its shape (line 339): one handle, a list of (shared, new) pairs, or the
\* pair (outputs tuple, updates list).
UpdatePairs(ups) ==
    [i \in 1 .. Len(ups) |-> [old |-> SharedHandle(ups[i]), new |-> Sym(ups[i])]]

FcnValue(f) ==
    IF f.shape = "stateless" THEN Sym(OutName(1))
    ELSE IF f.shape = "updater" THEN List(UpdatePairs(f.ups))
    ELSE Tuple(<< Tuple([i \in 1 .. f.nout |-> Sym(OutName(i))]),
                  List(UpdatePairs(f.ups)) >>)

\* lines 340-349: outputs and updates by the adapter class of self._fcn
ExtractOutputs(f, return_value) ==
    IF f.shape = "stateless"
      THEN [outputs |-> return_value, updates |-> <<>>]
    ELSE IF f.shape = "standard"
      THEN [outputs |-> return_value.items[1], updates |-> return_value.items[2].items]
    ELSE [outputs |-> Tuple(<<>>), updates |-> return_value.items]

\* The numeric value of a handle for one argument.
Eval(h, data) == [t |-> "array", of |-> h.name, val |-> data.val]

\* The value an update writes: it depends on the argument and on the old value.
UpdateValue(v, data, s) == (s[v] + data.val + 1) % 2

\* theano.function(inputs, outputs, updates), lines 369 and 380
TheanoFunction(inputs, outputs, updates) ==
    [t |-> "compiled", inputs |-> inputs, outputs |-> outputs, updates |-> updates]

\* Calling the compiled artifact: the outputs (a list for a sequence of output
\* handles, a bare array for a single handle) and the shared variables after
\* the declared updates.
RunCompiled(art, data, s) ==
    [ out |-> IF IsListOrTuple(art.outputs)
                THEN List([i \in 1 .. Len(art.outputs.items) |->
                              Eval(art.outputs.items[i], data)])
                ELSE Eval(art.outputs, data),
      shared |-> [v \in SharedVars |->
                    IF \E i \in 1 .. Len(art.updates) : art.updates[i].old.name = v
                      THEN UpdateValue(v, data, s)
                      ELSE s[v]] ]

\* lines 371-377: debug mode writes each update's test value, in declared
\* order; the test values were all computed while the graph was built (s0).
RECURSIVE SetValues(_, _, _, _, _)
SetValues(updates, i, s, s0, data) ==
    IF i > Len(updates) THEN s
    ELSE SetValues(updates, i + 1,
                   [s EXCEPT ![updates[i].old.name] =
                        UpdateValue(updates[i].old.name, data, s0)],
                   s0, data)

\* line 378: the test values of the outputs
TestValues(outputs, data) ==
    IF IsListOrTuple(outputs)
      THEN List([i \in 1 .. Len(outputs.items) |-> Eval(outputs.items[i], data)])
      ELSE Eval(outputs, data)

---------------------------------------------------------------------------
(* Debug-variable sources. *)

\* The locals of the wrapped definition when it returns, and the attributes of
\* the self it holds.
FcnLocals == ("x" :> Sym("x")) @@ ("self" :> Obj)
SelfAttrs == ("self.w" :> SharedHandle("w"))

\* The dictionaries a user-written source may return.
SourceDicts ==
    { ("a" :> Sym("a")) @@ ("b" :> Sym("b")),
      ("self" :> Obj) }

\* What a caller may hand to set_debug_variables.
SourceArgs ==
    { [t |-> "str", s |-> "locals"], [t |-> "str", s |-> "locals+class"], Obj }
    \cup { [t |-> "function", dict |-> d] : d \in SourceDicts }

KeyOrder == << "a", "b", "self", "self.w", "x" >>

\* BaseSymbolicFunction.locals, lines 146-149
LocalsOf(locs) ==
    IF locs = None THEN [raised |-> "Exception", val |-> None]
    ELSE [raised |-> "", val |-> [t |-> "dict", d |-> locs]]

\* Calling the registered source (line 357; the callbacks built at 414-417).
CallGetter(getter, locs) ==
    IF getter.kind = "function" THEN [raised |-> "", val |-> [t |-> "dict", d |-> getter.dict]]
    ELSE IF getter.kind = "locals" THEN LocalsOf(locs)
    ELSE IF LocalsOf(locs).raised # "" THEN LocalsOf(locs)
    ELSE IF "self" \notin DOMAIN locs THEN [raised |-> "KeyError", val |-> None]
    ELSE [raised |-> "", val |-> [t |-> "dict", d |-> locs @@ SelfAttrs]]

\* line 360: keep the symbolic entries only
FilterDebugVariables(d) ==
    [k \in {k \in DOMAIN d : IsVariable(d[k])} |-> d[k]]

\* dict.keys(), in the dictionary's (fixed) order
Keys(d) == SelectSeq(KeyOrder, LAMBDA k : k \in DOMAIN d)
\* dict.values(), in the same order
Values(d) == [i \in 1 .. Len(Keys(d)) |-> d[Keys(d)[i]]]

---------------------------------------------------------------------------
(* AutoCompilingFunction. *)

Bool(b) == [t |-> "bool", v |-> b]
NoDict == [k \in {} |-> None]

\* A variant that rebuilds the graph on every call (no cache test).
NeedsGraph_Always(c) == TRUE

\* line 336: a call builds the graph while the compiled slot is empty
NeedsGraph(c) == c = None

\* lines 351-380: what a graph-building call does once the definition has
\* returned: "debug_vars" compiles with the debug outputs appended,
\* "debug" replays test values and returns, "compile" compiles.
BuildBranch(getter, m) ==
    IF getter # None THEN "debug_vars"
    ELSE IF m = "debug" THEN "debug"
    ELSE "compile"

\* lines 392-393: the callbacks a completed call invokes, in order
InvokeCallbacks(cbs) == cbs

\* A variant that never unwraps a single output.
SplitOutputs_Wrapped(all_out, keys, single) ==
    LET n == Len(keys)
        m == Len(all_out) - n
        numeric == SubSeq(all_out, 1, m)
    IN  [ debug_values |->
              [t |-> "dict",
               d |-> [k \in {keys[i] : i \in 1 .. n} |->
                         all_out[m + (CHOOSE i \in 1 .. n : keys[i] = k)]]],
          numeric_output |-> List(numeric) ]

\* lines 383-390: split what the artifact returned into the snapshot and the
\* real outputs
SplitOutputs(all_out, keys, single) ==
    LET n == Len(keys)
        m == Len(all_out) - n
        numeric == SubSeq(all_out, 1, m)
    IN  [ debug_values |->
              [t |-> "dict",
               d |-> [k \in {keys[i] : i \in 1 .. n} |->
                         all_out[m + (CHOOSE i \in 1 .. n : keys[i] = k)]]],
          numeric_output |-> IF single THEN numeric[1] ELSE List(numeric) ]

\* AutoCompilingFunction.__call__, lines 331-395, with one argument `data`;
\* `good` says whether the definition's return value passes its adapter's
\* checks on this call (SymbolicFormatError otherwise).
Call(data, good) ==
    /\ nCalls < MaxCalls
    /\ LET build == NeedsGraph(compiled_fcn)
           tensor_args == << DataToTensor(data, cast_floats_to_floatX,
                                          mode \in TestModes, floatX) >>
           types == [i \in 1 .. Len(tensor_args) |-> TensorType(tensor_args[i])]
           ext == ExtractOutputs(fcn, FcnValue(fcn))
           there == debug_variable_getter # None
           got == CallGetter(debug_variable_getter, FcnLocals)
           filtered == FilterDebugVariables(got.val.d)
           outs == IF IsListOrTuple(ext.outputs) THEN ext.outputs.items
                   ELSE << ext.outputs >>
           branch ==
               IF ~build THEN "run"
               ELSE IF ~good THEN "SymbolicFormatError"
               ELSE IF BuildBranch(debug_variable_getter, mode) = "debug_vars"
                 THEN IF got.raised # "" THEN got.raised
                      ELSE IF Cardinality(DOMAIN filtered) = 0 THEN "AssertionError"
                      ELSE "compile_debug"
               ELSE BuildBranch(debug_variable_getter, mode)
           runs == branch \in {"run", "compile", "compile_debug"}
           ok == runs \/ branch = "debug"
           art == IF branch = "compile_debug"
                    THEN TheanoFunction(types, Tuple(outs \o Values(filtered)), ext.updates)
                  ELSE IF branch = "compile"
                    THEN TheanoFunction(types, ext.outputs, ext.updates)
                  ELSE compiled_fcn
           thereNow == IF build /\ good THEN Bool(there) ELSE there_are_debug_variables
           keysNow == IF branch = "compile_debug" THEN Keys(filtered)
                      ELSE debug_variable_keys
           singleNow == IF build /\ good /\ there
                          THEN Bool(~IsListOrTuple(ext.outputs))
                          ELSE single_output
           ran == RunCompiled(art, data, shared)
           split == SplitOutputs(ran.out.items, keysNow, singleNow.v)
       IN  /\ compiled_fcn' = art
           /\ there_are_debug_variables' = thereNow
           /\ single_output' = singleNow
           /\ debug_variable_keys' = keysNow
           /\ fcn_locals' = IF build THEN FcnLocals ELSE fcn_locals
           /\ debug_values' = IF runs /\ thereNow.v THEN split.debug_values
                              ELSE debug_values
           /\ shared' = IF runs THEN ran.shared
                        ELSE IF branch = "debug"
                          THEN SetValues(ext.updates, 1, shared, shared, data)
                        ELSE shared
           /\ nCalls' = nCalls + 1
           /\ nOk' = IF ok THEN nOk + 1 ELSE nOk
           /\ nBuilds' = IF build THEN nBuilds + 1 ELSE nBuilds
           /\ okBuilds' = IF build /\ ok THEN okBuilds + 1 ELSE okBuilds
           /\ nCompiles' = IF branch \in {"compile", "compile_debug"}
                             THEN nCompiles + 1 ELSE nCompiles
           /\ firstOk' = IF ok /\ firstOk = None
                           THEN [t |-> "call", inputs |-> types]
                           ELSE firstOk
           /\ lastOk' = IF ok THEN [t |-> "call", data |-> data, source |-> there]
                          ELSE lastOk
           /\ last' = [ op |-> "call",
                        raised |-> IF ok THEN "" ELSE branch,
                        ret |-> IF runs
                                  THEN (IF thereNow.v THEN split.numeric_output ELSE ran.out)
                                ELSE IF branch = "debug" THEN TestValues(ext.outputs, data)
                                ELSE None,
                        cbs |-> IF runs THEN InvokeCallbacks(callbacks) ELSE <<>>,
                        data |-> data ]
           /\ input_handles' = IF build THEN List(tensor_args) ELSE input_handles
    /\ UNCHANGED << mode, cast_floats_to_floatX, fcn, debug_variable_getter,
                    callbacks, floatX >>
    /\ UNCHANGED << symbolicVars, plottingVars, graphVars >>

\* lines 411-413: the two assertions guarding registration
RegistrationAllowed(getter, compiled) == getter = None /\ compiled = None

\* lines 414-419: the source a registration argument stands for
SourceOf(arg) ==
    IF arg.t = "str" /\ arg.s = "locals" THEN [t |-> "getter", kind |-> "locals"]
    ELSE IF arg.t = "str" /\ arg.s = "locals+class"
      THEN [t |-> "getter", kind |-> "locals+class"]
    ELSE IF arg.t = "function"
      THEN [t |-> "getter", kind |-> "function", dict |-> arg.dict]
    ELSE None

\* AutoCompilingFunction.set_debug_variables, lines 397-421
SetDebugVariables(arg) ==
    /\ LET okay == RegistrationAllowed(debug_variable_getter, compiled_fcn)
                     /\ SourceOf(arg) # None
       IN  /\ debug_variable_getter' =
                  IF okay THEN SourceOf(arg) ELSE debug_variable_getter
           /\ last' = [ op |-> "set_debug_variables",
                        raised |-> IF okay THEN "" ELSE "AssertionError",
                        ret |-> None, cbs |-> <<>>, data |-> None ]
    /\ UNCHANGED << mode, cast_floats_to_floatX, fcn, compiled_fcn, debug_values,
                    callbacks, there_are_debug_variables, single_output,
                    debug_variable_keys, fcn_locals, shared, floatX,
                    nCalls, nOk, nBuilds, okBuilds, nCompiles, firstOk, lastOk,
                    input_handles >>
    /\ UNCHANGED << symbolicVars, plottingVars, graphVars >>

\* lines 424-434: the outcome of get_debug_values
DebugValuesOutcome(values, getter, compiled, m) ==
    IF values = None
      THEN [raised |-> "Exception", ret |-> None,
            why |-> IF getter = None THEN "no debug variables defined"
                    ELSE IF compiled = None THEN "not run yet"
                    ELSE IF m # "omniscent" THEN "not omniscent"
                    ELSE "unknown"]
      ELSE [raised |-> "", ret |-> values, why |-> ""]

\* AutoCompilingFunction.get_debug_values, lines 423-434
GetDebugValues ==
    /\ LET o == DebugValuesOutcome(debug_values, debug_variable_getter,
                                   compiled_fcn, mode)
       IN  last' = [ op |-> "get_debug_values", raised |-> o.raised,
                     ret |-> o.ret, cbs |-> <<>>, data |-> None ]
    /\ UNCHANGED << mode, cast_floats_to_floatX, fcn, compiled_fcn,
                    debug_variable_getter, debug_values,
                    callbacks, there_are_debug_variables, single_output,
                    debug_variable_keys, fcn_locals, shared, floatX,
                    nCalls, nOk, nBuilds, okBuilds, nCompiles, firstOk, lastOk,
                    input_handles >>
    /\ UNCHANGED << symbolicVars, plottingVars, graphVars >>

\* AutoCompilingFunction.add_callback, lines 436-437
AddCallback(c) ==
    /\ Len(callbacks) < MaxCallbacks
    /\ callbacks' = Append(callbacks, c)
    /\ last' = [ op |-> "add_callback", raised |-> "", ret |-> None,
                 cbs |-> <<>>, data |-> None ]
    /\ UNCHANGED << mode, cast_floats_to_floatX, fcn, compiled_fcn,
                    debug_variable_getter, debug_values,
                    there_are_debug_variables, single_output,
                    debug_variable_keys, fcn_locals, shared, floatX,
                    nCalls, nOk, nBuilds, okBuilds, nCompiles, firstOk, lastOk,
                    input_handles >>
    /\ UNCHANGED << symbolicVars, plottingVars, graphVars >>

\* AutoCompilingFunction.__init__, lines 300-329
Constructed ==
    /\ mode \in {NormalizeMode(m) : m \in ModeArgs}
    /\ cast_floats_to_floatX \in BOOLEAN
    /\ fcn \in Fcns
    /\ compiled_fcn = None
    /\ debug_variable_getter = None
    /\ debug_values = None
    /\ callbacks = <<>>
    /\ there_are_debug_variables = Unset
    /\ single_output = Unset
    /\ debug_variable_keys = Unset
    /\ fcn_locals = None
    /\ shared = [v \in SharedVars |-> 0]
    /\ nCalls = 0 /\ nOk = 0 /\ nBuilds = 0 /\ okBuilds = 0 /\ nCompiles = 0
    /\ firstOk = None
    /\ lastOk = None
    /\ last = [ op |-> "init", raised |-> "", ret |-> None, cbs |-> <<>>,
                data |-> None ]
    /\ input_handles = None

\* A callable constructed where theano.config.floatX is 'float32'.
InitCompiled == Constructed /\ floatX = "float32"

NextCompiled ==
    \/ \E data \in CallData, good \in BOOLEAN : Call(data, good)
    \/ \E arg \in SourceArgs : SetDebugVariables(arg)
    \/ GetDebugValues
    \/ \E c \in CallbackIds : AddCallback(c)

\* Calls with arguments of every kind, the definition returning what it declares.
NextTensor == \E data \in TensorData : Call(data, TRUE)

---------------------------------------------------------------------------
(* The shape checks of BaseSymbolicFunction, lines 92-113.  Each returns the *)
(* name of the exception it raises, "" when it passes.                       *)

SymbolicReturn(outputs, updates) ==
    [t |-> "SymbolicReturn", outputs |-> outputs, updates |-> updates]

\* isinstance(v, SharedVariable)
IsShared(v) == v.t = "shared"
\* the objects len() accepts (a theano Variable defines no __len__)
IsSized(v) == v.t \in {"tuple", "list"}

\* _assert_is_tensor, lines 92-94
AssertIsTensor(arg) ==
    IF IsVariable(arg) THEN "" ELSE "SymbolicFormatError"

\* _assert_all_tensors, lines 96-98
AssertAllTensors(args) ==
    IF args.t = "tuple" /\ \A i \in 1 .. Len(args.items) : IsVariable(args.items[i])
      THEN "" ELSE "SymbolicFormatError"

\* all(len(up)==2 for up in updates), line 101: the generator stops at the
\* first element of another length, and len() of an unsized element raises.
RECURSIVE AllLenTwo(_, _)
AllLenTwo(items, i) ==
    IF i > Len(items) THEN "True"
    ELSE IF ~IsSized(items[i]) THEN "TypeError"
    ELSE IF Len(items[i].items) # 2 THEN "False"
    ELSE AllLenTwo(items, i + 1)

\* _assert_all_updates, lines 100-103
AssertAllUpdates(updates) ==
    IF updates.t # "list" THEN "SymbolicFormatError"
    ELSE IF AllLenTwo(updates.items, 1) = "TypeError" THEN "TypeError"
    ELSE IF AllLenTwo(updates.items, 1) = "False" THEN "SymbolicFormatError"
    ELSE IF \A i \in 1 .. Len(updates.items) :
                IsShared(updates.items[i].items[1]) /\ IsVariable(updates.items[i].items[2])
      THEN "" ELSE "SymbolicFormatError"

\* _assert_standard_return, lines 105-113
AssertStandardReturn(return_val) ==
    IF return_val.t = "SymbolicReturn" THEN ""
    ELSE IF ~(return_val.t = "tuple" /\ Len(return_val.items) = 2)
      THEN "SymbolicFormatError"
    ELSE IF AssertAllTensors(return_val.items[1]) # ""
      THEN AssertAllTensors(return_val.items[1])
    ELSE AssertAllUpdates(return_val.items[2])

\* The check each adapter class applies to what the definition returned
\* (lines 170, 191, 213).
CheckReturn(cls, v) ==
    IF cls = "stateless" THEN AssertIsTensor(v)
    ELSE IF cls = "updater" THEN AssertAllUpdates(v)
    ELSE AssertStandardReturn(v)

\* The helper whose frame returns last while a return value is checked.
LastCheckFrame(cls, v) ==
    IF cls = "stateless" THEN "_assert_is_tensor"
    ELSE IF cls = "updater" THEN "_assert_all_updates"
    ELSE "_assert_standard_return"

\* A variant that returns the output bare instead of in a one-element tuple.
StandardFromOutput_Bare(out) == Tuple(<< out, List(<<>>) >>)

\* SymbolicStatelessFunction._standard_function, line 183
StandardFromOutput(out) == Tuple(<< Tuple(<< out >>), List(<<>>) >>)

\* A variant that drops the updates the definition declares.
StandardFromUpdates_Dropped(updates) == Tuple(<< Tuple(<<>>), List(<<>>) >>)

\* SymbolicUpdateFunction._standard_function, line 205
StandardFromUpdates(updates) == Tuple(<< Tuple(<<>>), updates >>)

---------------------------------------------------------------------------
(* The annotated definitions: adapters, frames and the profile hook. *)

\* line 28
ENABLE_OMNISCENCE == TRUE

Forms == {"function", "method", "class"}
Instances == {-1, -2}        \* the plain objects a decorated method is accessed on

\* BaseSymbolicFunction.__init__, lines 86-90 (origin is an observation: how
\* the adapter came to be).
Adapter(cls, f, instance, origin) ==
    [cls |-> cls, fcn |-> f, instance |-> instance, locals |-> None,
     origin |-> origin]

DefRef(d) == [k |-> "def", d |-> d]
SelfRef == [k |-> "self"]
BoundRef(o, m) == [k |-> "bound", o |-> o, m |-> m]

\* _decorate_anything / _decorate_callable_class, lines 246-285, and
\* BaseSymbolicFunction.__new__, lines 80-84: what exists once the
\* definition is annotated (and, for a class, instantiated once).
InitialObjs(sc) ==
    ( IF sc.form = "function"
        THEN << Adapter(sc.shape, DefRef("main"), 0, "function") >>
      ELSE IF sc.form = "method"
        THEN << Adapter(sc.shape, DefRef("main"), 0, "descriptor") >>
      ELSE << Adapter(sc.shape, DefRef("main"), 0, "descriptor"),
              Adapter(sc.shape, SelfRef, 0, "instance") >> )
    \o ( IF sc.nested THEN << Adapter("stateless", DefRef("inner"), 0, "inner") >>
         ELSE <<>> )

\* The stateless definition that a nesting body invokes.
\* The adapters the caller has obtained since: accesses and views.
Obtained == Len(objs) - Len(InitialObjs(scenario))

InnerId == CHOOSE o \in 1 .. Len(objs) : objs[o].origin = "inner"

DefShape(d) == IF d = "main" THEN scenario.shape ELSE "stateless"
\* A method and a class's __call__ take the receiver as first parameter.
DefTakesSelf(d) == d = "main" /\ scenario.form \in {"method", "class"}
\* A variant in which no body invokes another annotated definition.
DefNests_Never(d) == FALSE

\* The body of the main definition of a nesting scenario invokes the inner one.
DefNests(d) == d = "main" /\ scenario.nested

\* Arguments of a direct invocation: each a one-element tuple.
ArgTuples == { Tuple(<< Sym("x") >>), Tuple(<< Obj >>) }
\* Keyword arguments: none, or one holding an object that is not a handle.
KwArgs == {"none", "other"}

UpdatePair == Tuple(<< SharedHandle("w"), Sym("r") >>)

\* What a definition may return.
RetValues(shape) ==
    IF shape = "stateless"
      THEN { Sym("r"), Obj, Tuple(<< Sym("r") >>) }
    ELSE IF shape = "updater"
      THEN { List(<<>>), List(<< UpdatePair >>),
             List(<< Tuple(<< Sym("r"), Sym("r") >>) >>),
             List(<< Obj >>),
             Tuple(<< UpdatePair >>) }
    ELSE { Tuple(<< Tuple(<< Sym("r") >>), List(<<>>) >>),
           Tuple(<< Tuple(<< Sym("r"), Sym("r2") >>), List(<<>>) >>),
           Tuple(<< Tuple(<< Sym("r") >>), List(<< UpdatePair >>) >>),
           SymbolicReturn(Tuple(<< Sym("r") >>), List(<<>>)),
           List(<< Tuple(<< Sym("r") >>), List(<<>>) >>),
           Tuple(<< Sym("r"), List(<<>>) >>),
           Tuple(<< Tuple(<< Sym("r") >>), List(<< Obj >>) >>) }

\* frame.f_locals.copy() of a frame, line 132: which function the frame runs,
\* the adapter it runs for, and for a wrapped definition its receiver and
\* arguments.
Snap(frame, of, args, recv) ==
    [t |-> "locals", frame |-> frame, of |-> of,
     args |-> IF of = 0 THEN args ELSE None, recv |-> recv]

Frame(kind, self, pc, args, kwargs) ==
    [kind |-> kind, self |-> self, pc |-> pc, args |-> args, kwargs |-> kwargs,
     val |-> None, d |-> "", recv |-> 0, temp |-> FALSE]

DefFrame(d, self, args, kwargs, recv) ==
    [kind |-> "def", self |-> self, pc |-> IF DefNests(d) THEN "body" ELSE "ret",
     args |-> args, kwargs |-> kwargs, val |-> None, d |-> d, recv |-> recv,
     temp |-> FALSE]

Idle == [op |-> "idle", target |-> 0, args |-> None, kwargs |-> "none",
         invocations |-> 0, defRet |-> None, defSnap |-> None]

Outcome(op, target, raised, ret) ==
    [op |-> op, target |-> target, raised |-> raised, ret |-> ret,
     args |-> None, kwargs |-> "none", invocations |-> 0, defRet |-> None,
     defSnap |-> None]

Ref(o) == [t |-> "ref", id |-> o]

Top == stack[Len(stack)]
Below == SubSeq(stack, 1, Len(stack) - 1)

\* tracer, lines 127-134: on a 'return' event the installed tracer stores the
\* returning frame's locals in the adapter it belongs to.
Tracer(os, hook, snap) ==
    IF hook = 0 THEN os ELSE [os EXCEPT ![hook].locals = snap]

\* The caller's frames once the innermost frame has returned `v`.
Deliver(st, v) ==
    IF st = <<>> THEN st ELSE [st EXCEPT ![Len(st)].val = v]

\* The adapter a call of the instance `o` of a decorated class goes through:
\* __get__ of the decorated __call__, lines 278 and 115-116.
BindCall(o) == Adapter(objs[o].cls, DefRef("main"), o, "temp")

\* An adapter made for one call is dropped when the call's frame is left.
Release(os, frame) ==
    IF frame.temp THEN SubSeq(os, 1, Len(os) - 1) ELSE os

\* The record of a finished invocation.
Finish(os, raised, ret) ==
    [ objs |-> os,
      result |-> [op |-> "invoke", target |-> cur.target, raised |-> raised,
                  ret |-> ret, args |-> cur.args, kwargs |-> cur.kwargs,
                  invocations |-> cur.invocations, defRet |-> cur.defRet,
                  defSnap |-> cur.defSnap] ]

CallableTargets == {"function", "method", "instance", "view"}

\* A caller invokes the adapter `o` (lines 167, 188, 210; only
\* SymbolicUpdateFunction.__call__ admits keyword arguments).
Invoke(o, args, kw) ==
    /\ stack = <<>>
    /\ o \in 1 .. Len(objs)
    /\ objs[o].origin \in CallableTargets
    /\ kw # "none" => objs[o].cls = "updater"
    /\ IF objs[o].fcn.k = "self"
         THEN /\ objs' = Append(objs, BindCall(o))
              /\ stack' = << [Frame("__call__", Len(objs) + 1, "args", args, kw)
                                EXCEPT !.temp = TRUE] >>
         ELSE /\ objs' = objs
              /\ stack' = << Frame("__call__", o, "args", args, kw) >>
    /\ cur' = [Idle EXCEPT !.op = "invoke", !.target = o, !.args = args, !.kwargs = kw]
    /\ UNCHANGED << scenario, profile, exc, result >>
    /\ UNCHANGED << compiledVars, plottingVars, graphVars >>

\* Leaving a __call__ frame normally with value v.
ReturnFromCall(os, v) ==
    LET os1 == Release(Tracer(os, profile, Snap("__call__", Top.self, Top.args, 0)), Top)
    IN  IF Len(stack) = 1
          THEN /\ objs' = Finish(os1, "", v).objs
               /\ result' = Finish(os1, "", v).result
               /\ cur' = Idle
               /\ stack' = <<>>
          ELSE /\ objs' = os1
               /\ stack' = Deliver(Below, v)
               /\ UNCHANGED << result, cur >>

\* SymbolicStatelessFunction / SymbolicUpdateFunction /
\* SymbolicStandardFunction.__call__, lines 167-171, 188-192, 210-214
StepCall ==
    /\ stack # <<>> /\ exc = "" /\ Top.kind = "__call__"
    /\ IF Top.pc = "args"
         THEN LET e == AssertAllTensors(Top.args)
                  os1 == Tracer(objs, profile,
                                Snap("_assert_all_tensors", Top.self, Top.args, 0))
              IN  /\ objs' = os1
                  /\ exc' = e
                  /\ stack' = IF e # "" THEN stack
                              ELSE [stack EXCEPT ![Len(stack)].pc = "check"]
                                   \o << Frame("_call_fcn", Top.self, "enter",
                                               Top.args, Top.kwargs) >>
                  /\ UNCHANGED << result, cur >>
         ELSE LET cls == objs[Top.self].cls
                  e == CheckReturn(cls, Top.val)
                  os1 == Tracer(objs, profile,
                                Snap(LastCheckFrame(cls, Top.val), Top.self, Top.args, 0))
              IN  IF e # ""
                    THEN /\ objs' = os1
                         /\ exc' = e
                         /\ UNCHANGED << stack, result, cur >>
                    ELSE /\ ReturnFromCall(os1, Top.val)
                         /\ exc' = exc
    /\ UNCHANGED << scenario, profile >>
    /\ UNCHANGED << compiledVars, plottingVars, graphVars >>

\* Calling self._fcn from the frame on top under the hook `hook` (lines 139,
\* 143 with the receiver, line 225 without it): the frames and adapters
\* afterwards, or the TypeError of a call that does not match the signature.
InvokeFcn(a, withReceiver, hook, below, callerPc) ==
    LET f == objs[a].fcn
        me == [Top EXCEPT !.pc = callerPc]
        recv == IF withReceiver THEN objs[a].instance ELSE 0
    IN  IF f.k = "def"
          THEN IF (recv # 0) # DefTakesSelf(f.d)
                 THEN [exc |-> "TypeError", objs |-> objs, stack |-> below \o << me >>,
                       invoked |-> 0]
                 ELSE [exc |-> "", objs |-> objs,
                       stack |-> below \o << me, DefFrame(f.d, a, Top.args, Top.kwargs, recv) >>,
                       invoked |-> 1]
        ELSE IF f.k = "bound"
          THEN [exc |-> "", objs |-> objs,
                stack |-> below \o << me, Frame(f.m, f.o, "enter", Top.args, Top.kwargs) >>,
                invoked |-> 0]
        ELSE IF Top.kwargs # "none" /\ objs[a].cls # "updater"
          THEN [exc |-> "TypeError",
                objs |-> Tracer(objs, hook, Snap("__get__", 1, Top.args, a)),
                stack |-> below \o << me >>, invoked |-> 0]
        ELSE [exc |-> "",
              objs |-> Append(Tracer(objs, hook, Snap("__get__", 1, Top.args, a)),
                              BindCall(a)),
              stack |-> below \o << me, [Frame("__call__", Len(objs) + 1, "args",
                                                Top.args, Top.kwargs)
                                            EXCEPT !.temp = TRUE] >>,
              invoked |-> 0]

\* A variant whose finally clause leaves the hook as it is.
HookAfter_Kept(kind, hook) == hook

\* The hook once a frame of the given kind is left: the finally clause of
\* _call_fcn, lines 140-141, sets it to None.
HookAfter(kind, hook) == IF kind = "_call_fcn" /\ ENABLE_OMNISCENCE THEN 0 ELSE hook

\* BaseSymbolicFunction._call_fcn, lines 121-144
StepCallFcn ==
    /\ stack # <<>> /\ exc = "" /\ Top.kind = "_call_fcn"
    /\ IF Top.pc = "enter"
         THEN LET hook == IF ENABLE_OMNISCENCE THEN Top.self ELSE profile
                  r == InvokeFcn(Top.self, TRUE, hook, Below, "finally")
              IN  /\ profile' = hook
                  /\ objs' = r.objs
                  /\ stack' = r.stack
                  /\ exc' = r.exc
                  /\ cur' = [cur EXCEPT !.invocations = @ + r.invoked]
         ELSE /\ profile' = HookAfter(Top.kind, profile)
              /\ objs' = Tracer(objs, profile', Snap("_call_fcn", Top.self, Top.args, 0))
              /\ stack' = Deliver(Below, Top.val)
              /\ UNCHANGED << exc, cur >>
    /\ UNCHANGED << scenario, result >>
    /\ UNCHANGED << compiledVars, plottingVars, graphVars >>

DefSnap(frame) == Snap(frame.d, 0, frame.args, frame.recv)

\* The wrapped definition: a body that may invoke another annotated
\* definition, then a return value or an exception of its own.
StepDef ==
    /\ stack # <<>> /\ exc = "" /\ Top.kind = "def"
    /\ IF Top.pc = "body"
         THEN /\ stack' = [stack EXCEPT ![Len(stack)].pc = "ret"]
                          \o << Frame("__call__", InnerId, "args", Top.args, "none") >>
              /\ UNCHANGED << objs, exc, cur >>
         ELSE \/ \E v \in RetValues(DefShape(Top.d)) :
                    /\ objs' = Tracer(objs, profile, DefSnap(Top))
                    /\ stack' = Deliver(Below, v)
                    /\ cur' = IF Top.d = "main"
                                THEN [cur EXCEPT !.defRet = v, !.defSnap = DefSnap(Top)]
                                ELSE cur
                    /\ exc' = exc
              \/ /\ exc' = "Exception"
                 /\ UNCHANGED << objs, stack, cur >>
    /\ UNCHANGED << scenario, profile, result >>
    /\ UNCHANGED << compiledVars, plottingVars, graphVars >>

\* SymbolicStatelessFunction._standard_function, lines 181-183, and
\* SymbolicUpdateFunction._standard_function, lines 203-205
StepStandardFunction ==
    /\ stack # <<>> /\ exc = "" /\ Top.kind = "_standard_function"
    /\ IF Top.pc = "enter"
         THEN /\ stack' = [stack EXCEPT ![Len(stack)].pc = "ret"]
                          \o << Frame("_call_fcn", Top.self, "enter", Top.args, Top.kwargs) >>
              /\ objs' = objs
         ELSE /\ objs' = Tracer(objs, profile,
                                Snap("_standard_function", Top.self, Top.args, 0))
              /\ stack' = Deliver(Below,
                               IF objs[Top.self].cls = "stateless"
                                 THEN StandardFromOutput(Top.val)
                                 ELSE StandardFromUpdates(Top.val))
    /\ UNCHANGED << scenario, profile, exc, cur, result >>
    /\ UNCHANGED << compiledVars, plottingVars, graphVars >>

\* A variant without the two assertions: it hands back the first output.
StatelessFromStandard_Unchecked(v) ==
    LET pair == IF v.t = "SymbolicReturn" THEN << v.outputs, v.updates >>
                ELSE IF IsSized(v) THEN v.items ELSE <<>>
    IN  IF Len(pair) # 2 THEN [exc |-> "ValueError", val |-> None]
        ELSE IF ~IsSized(pair[1]) \/ Len(pair[1].items) = 0
          THEN [exc |-> "TypeError", val |-> None]
        ELSE [exc |-> "", val |-> pair[1].items[1]]

\* lines 225-231: unpacking the pair and the two assertions
StatelessFromStandard(v) ==
    LET pair == IF v.t = "SymbolicReturn" THEN << v.outputs, v.updates >>
                ELSE IF IsSized(v) THEN v.items ELSE <<>>
    IN  IF v.t # "SymbolicReturn" /\ ~IsSized(v) THEN [exc |-> "TypeError", val |-> None]
        ELSE IF Len(pair) # 2 THEN [exc |-> "ValueError", val |-> None]
        ELSE IF ~IsSized(pair[2]) THEN [exc |-> "TypeError", val |-> None]
        ELSE IF Len(pair[2].items) # 0 THEN [exc |-> "AssertionError", val |-> None]
        ELSE IF ~IsSized(pair[1]) THEN [exc |-> "TypeError", val |-> None]
        ELSE IF Len(pair[1].items) # 1 THEN [exc |-> "AssertionError", val |-> None]
        ELSE [exc |-> "", val |-> pair[1].items[1]]

\* SymbolicStandardFunction._stateless_function, lines 224-231
StepStatelessFunction ==
    /\ stack # <<>> /\ exc = "" /\ Top.kind = "_stateless_function"
    /\ IF Top.pc = "enter"
         THEN LET r == InvokeFcn(Top.self, FALSE, profile, Below, "ret")
              IN  /\ objs' = r.objs
                  /\ stack' = r.stack
                  /\ exc' = r.exc
                  /\ cur' = [cur EXCEPT !.invocations = @ + r.invoked]
         ELSE LET r == StatelessFromStandard(Top.val)
              IN  /\ exc' = r.exc
                  /\ cur' = cur
                  /\ IF r.exc # ""
                       THEN UNCHANGED << objs, stack >>
                       ELSE /\ objs' = Tracer(objs, profile,
                                              Snap("_stateless_function", Top.self, Top.args, 0))
                            /\ stack' = Deliver(Below, r.val)
    /\ UNCHANGED << scenario, profile, result >>
    /\ UNCHANGED << compiledVars, plottingVars, graphVars >>

\* An exception leaves the innermost frame: _call_fcn's finally clause
\* (line 141) removes the hook; every frame left fires a 'return' event.
Unwind ==
    /\ stack # <<>> /\ exc # ""
    /\ profile' = HookAfter(Top.kind, profile)
    /\ LET snap == IF Top.kind = "def" THEN DefSnap(Top)
                   ELSE Snap(Top.kind, Top.self, Top.args, 0)
           os1 == Release(Tracer(objs, profile', snap), Top)
       IN  IF Len(stack) = 1
             THEN /\ objs' = Finish(os1, exc, None).objs
                  /\ result' = Finish(os1, exc, None).result
                  /\ cur' = Idle
                  /\ exc' = ""
             ELSE /\ objs' = os1
                  /\ UNCHANGED << result, cur, exc >>
    /\ stack' = Below
    /\ UNCHANGED scenario
    /\ UNCHANGED << compiledVars, plottingVars, graphVars >>

\* A variant that binds no instance.
Get_Unbound(desc, instance) == Adapter(desc.cls, desc.fcn, 0, "method")

\* BaseSymbolicFunction.__get__, lines 115-116: a new adapter of the same class
\* around the same definition, bound to the instance
Get(desc, instance) == Adapter(desc.cls, desc.fcn, instance, "method")

\* Accessing the decorated method on the instance i
Access(i) ==
    /\ stack = <<>>
    /\ scenario.form = "method"
    /\ Obtained < MaxAdapters
    /\ objs' = Append(objs, Get(objs[1], i))
    /\ result' = Outcome("access", Len(objs) + 1, "", Ref(Len(objs) + 1))
    /\ UNCHANGED << scenario, profile, stack, exc, cur >>
    /\ UNCHANGED << compiledVars, plottingVars, graphVars >>

\* The properties symbolic_stateless and symbolic_standard, lines 173-179,
\* 194-201, 216-222: the adapter returned (the object itself, or a new one
\* around a bound method) or the exception raised.
ViewOf(o, which) ==
    LET cls == objs[o].cls
    IN  IF (which = "symbolic_standard" /\ cls = "standard")
           \/ (which = "symbolic_stateless" /\ cls = "stateless")
          THEN [raised |-> "", new |-> FALSE, adapter |-> None]
        ELSE IF which = "symbolic_standard"
          THEN [raised |-> "", new |-> TRUE,
                adapter |-> Adapter("standard", BoundRef(o, "_standard_function"), 0, "view")]
        ELSE IF cls = "updater"
          THEN [raised |-> "Exception", new |-> FALSE, adapter |-> None]
        ELSE [raised |-> "", new |-> TRUE,
              adapter |-> Adapter("stateless", BoundRef(o, "_stateless_function"), 0, "view")]

View(o, which) ==
    /\ stack = <<>>
    /\ o \in 1 .. Len(objs)
    /\ objs[o].origin \in CallableTargets \ {"view"}    \* views of definitions
    /\ LET r == ViewOf(o, which)
       IN  IF r.new
             THEN /\ Obtained < MaxAdapters
                  /\ objs' = Append(objs, r.adapter)
                  /\ result' = Outcome(which, o, "", Ref(Len(objs) + 1))
             ELSE /\ objs' = objs
                  /\ result' = Outcome(which, o, r.raised,
                                       IF r.raised = "" THEN Ref(o) ELSE None)
    /\ UNCHANGED << scenario, profile, stack, exc, cur >>
    /\ UNCHANGED << compiledVars, plottingVars, graphVars >>

\* BaseSymbolicFunction.locals, lines 146-149
Locals(o) ==
    /\ stack = <<>>
    /\ o \in 1 .. Len(objs)
    /\ objs[o].origin \in CallableTargets
    /\ result' = Outcome("locals", o, LocalsOf(objs[o].locals).raised,
                         LocalsOf(objs[o].locals).val)
    /\ UNCHANGED << scenario, objs, profile, stack, exc, cur >>
    /\ UNCHANGED << compiledVars, plottingVars, graphVars >>

\* SymbolicReturn.__init__, lines 510-517: the object constructed, or the
\* exception raised.  Building either error message reads self._fcn (lines
\* 512, 515), an attribute a SymbolicReturn does not have.
SymbolicReturnInit(outputs, updates) ==
    IF ~(outputs.t = "tuple"
         /\ \A i \in 1 .. Len(outputs.items) : IsVariable(outputs.items[i]))
      THEN [raised |-> "AttributeError", val |-> None]
    ELSE IF updates.t # "list" THEN [raised |-> "AttributeError", val |-> None]
    ELSE IF AllLenTwo(updates.items, 1) = "TypeError"
      THEN [raised |-> "TypeError", val |-> None]
    ELSE IF AllLenTwo(updates.items, 1) = "False"
      THEN [raised |-> "AttributeError", val |-> None]
    ELSE IF \A i \in 1 .. Len(updates.items) :
                IsShared(updates.items[i].items[1]) /\ IsVariable(updates.items[i].items[2])
      THEN [raised |-> "", val |-> SymbolicReturn(outputs, updates)]
    ELSE [raised |-> "AttributeError", val |-> None]

\* SymbolicReturn.__iter__, lines 519-520
SymbolicReturnIter(v) == << v.outputs, v.updates >>

\* The arguments a caller may construct a SymbolicReturn from.
OutputArgs == { Tuple(<< Sym("r") >>), List(<< Sym("r") >>) }
UpdateArgs == { List(<<>>), List(<< UpdatePair >>), List(<< Obj >>) }

\* A caller constructs SymbolicReturn(outputs, updates), lines 508-517.
Construct(outputs, updates) ==
    /\ stack = <<>>
    /\ result' = [ Outcome("SymbolicReturn", 0,
                           SymbolicReturnInit(outputs, updates).raised,
                           SymbolicReturnInit(outputs, updates).val)
                     EXCEPT !.args = Tuple(<< outputs, updates >>) ]
    /\ UNCHANGED << scenario, objs, profile, stack, exc, cur >>
    /\ UNCHANGED << compiledVars, plottingVars, graphVars >>

Scenarios ==
    { sc \in [shape : Shapes, form : Forms, nested : BOOLEAN] :
          sc.nested => sc.form = "function" }

NextSymbolic ==
    \/ \E o \in 1 .. Len(objs), args \in ArgTuples, kw \in KwArgs : Invoke(o, args, kw)
    \/ StepCall
    \/ StepCallFcn
    \/ StepDef
    \/ StepStandardFunction
    \/ StepStatelessFunction
    \/ Unwind
    \/ \E i \in Instances : Access(i)
    \/ \E o \in 1 .. Len(objs), which \in {"symbolic_standard", "symbolic_stateless"} :
           View(o, which)
    \/ \E o \in 1 .. Len(objs) : Locals(o)
    \/ \E outputs \in OutputArgs, updates \in UpdateArgs : Construct(outputs, updates)

---------------------------------------------------------------------------
(* plotting/data_conversion.py: RecordBuffer, lines 93-107. *)

\* numpy's not-a-number, and a numeric sample
NaN == [t |-> "nan"]
Num(v) == [t |-> "num", v |-> v]

\* The samples a caller pushes (scalars).
Samples == { Num(1), Num(2) }

\* line 102: np.zeros((buffer_len, )+shape)+np.nan, for scalar samples
EmptyBuffer(n) == [t |-> "array", at |-> [i \in 0 .. n - 1 |-> NaN]]

\* A variant that returns the buffer as stored, unrotated.
RotatedView_Stored(buf, start, n) == [t |-> "array", at |-> buf.at]

\* line 107: self._buffer[(self._base_indices+self._ix) % self._buffer_len]
RotatedView(buf, start, n) ==
    [t |-> "array", at |-> [j \in 0 .. n - 1 |-> buf.at[(j + start) % n]]]

\* RecordBuffer.__call__, lines 100-107
Push(data) ==
    /\ Len(pushed) < MaxPushes
    /\ LET allocated == IF buffer = None THEN EmptyBuffer(buffer_len) ELSE buffer
           written == [allocated EXCEPT !.at[ix] = data]
           next == (ix + 1) % buffer_len
       IN  /\ buffer' = written
           /\ ix' = next
           /\ pushRet' = RotatedView(written, next, buffer_len)
    /\ pushed' = Append(pushed, data)
    /\ UNCHANGED << buffer_len, memoVars, gridVars, compiledVars, symbolicVars, graphVars >>

\* RecordBuffer.__init__, lines 95-99, with the capacity n
BufferInit(n) ==
    /\ buffer_len = n
    /\ buffer = None
    /\ ix = 0
    /\ pushed = <<>>
    /\ pushRet = None

NextBuffer == \E data \in Samples : Push(data)

---------------------------------------------------------------------------
(* plotting/data_conversion.py: memoize, lines 6-18. *)

\* The positional-argument tuples of the calls: two of hashable values, and
\* one holding a list, which cannot be hashed.
MemoArgs == { << Num(1) >>, << Num(2) >>, << [t |-> "list"] >> }

\* hash(args) succeeds
Hashable(args) == \A i \in 1 .. Len(args) : args[i].t # "list"

\* What fcn(*args) does if it is invoked now: the underlying function need
\* not be pure, and it may raise.
FcnOutcomes ==
    { [raised |-> "", val |-> Num(1)], [raised |-> "", val |-> Num(2)],
      [raised |-> "Exception", val |-> None] }

\* A variant that never finds an entry.
MemoHit_Never(args, cache) == FALSE

\* line 11: args in lookup
MemoHit(args, cache) == args \in DOMAIN cache

\* line 15: lookup[args] = out
Store(cache, args, out) ==
    [a \in DOMAIN cache \cup {args} |-> IF a = args THEN out ELSE cache[a]]

\* memoization_wrapper(*args), lines 10-16; `would` is what the underlying
\* function does if this call invokes it.
MemoCall(args, would) ==
    /\ memoLog[args].calls < MaxMemoCalls
    /\ LET hit == Hashable(args) /\ MemoHit(args, lookup)
           invoked == Hashable(args) /\ ~hit
           stored == invoked /\ would.raised = ""
           L == memoLog[args]
       IN  /\ lookup' = IF stored THEN Store(lookup, args, would.val) ELSE lookup
           /\ memoRet' =
                [ args |-> args, invoked |-> invoked,
                  raised |-> IF ~Hashable(args) THEN "TypeError"
                             ELSE IF hit THEN "" ELSE would.raised,
                  ret |-> IF ~Hashable(args) THEN None
                          ELSE IF hit THEN lookup[args] ELSE would.val ]
           /\ memoLog' =
                [ memoLog EXCEPT ![args] =
                    [ calls |-> L.calls + 1,
                      invocations |-> L.invocations + (IF invoked THEN 1 ELSE 0),
                      failures |-> L.failures
                                   + (IF invoked /\ would.raised # "" THEN 1 ELSE 0),
                      first |-> IF stored /\ L.first = None THEN would.val
                                ELSE L.first ] ]
    /\ UNCHANGED << bufferVars, gridVars, compiledVars, symbolicVars, graphVars >>

\* memoize(fcn), lines 6-8 and 18: an empty cache (and nothing observed yet)
MemoInit ==
    /\ lookup = << >>
    /\ memoLog = [a \in MemoArgs |->
                    [calls |-> 0, invocations |-> 0, failures |-> 0, first |-> None]]
    /\ memoRet = None

NextMemo == \E args \in MemoArgs, would \in FcnOutcomes : MemoCall(args, would)

---------------------------------------------------------------------------
(* plotting/data_conversion.py: the tiling functions, lines 21-81. *)

\* line 68: boundary_width = 1
DefaultBoundaryWidth == 1

\* int(np.ceil(np.sqrt(n))), line 32
CeilSqrt(n) == CHOOSE c \in 0 .. n : c * c >= n /\ (c = 0 \/ (c - 1) * (c - 1) < n)

\* A variant that rounds the quotient down.
CeilDiv_Floor(a, b) == a \div b

\* int(np.ceil(a/b)) with b a float, line 33
CeilDiv(a, b) == (a + b - 1) \div b

\* vector_length_to_tile_dims, lines 21-35
VectorLengthToTileDims(vector_length) ==
    LET n_cols == CeilSqrt(vector_length)
        n_rows == CeilDiv(vector_length, n_cols)
    IN  << n_rows, n_cols >>

\* _data_shape_and_boundary_width_to_grid_slices, lines 39-65: the canvas shape
\* and the (pull, push) pairs, in loop order, each with the grid cell (i, j)
\* it was planned for.  The break of line 57 leaves the inner loop only.
GridSlices(shape, grid_shape_arg, boundary_width) ==
    LET L == Len(shape)
        is_colour == shape[L] = 3
        size_y == IF is_colour THEN shape[L - 2] ELSE shape[L - 1]
        size_x == IF is_colour THEN shape[L - 1] ELSE shape[L]
        is_vector == (L = 4 /\ is_colour) \/ (L = 3 /\ ~is_colour)
        grid_shape == IF grid_shape_arg # None THEN grid_shape_arg.items
                      ELSE IF is_vector THEN VectorLengthToTileDims(shape[1])
                      ELSE << shape[1], shape[2] >>
        n_rows == grid_shape[1]
        n_cols == grid_shape[2]
        reached(i, j) ==
            ~is_vector \/ \A j2 \in 0 .. j : i * n_cols + j2 # shape[1]
        pair(t) ==
            LET i == t \div n_cols
                j == t % n_cols
            IN  [ included |-> reached(i, j), i |-> i, j |-> j,
                  pull |-> IF is_vector THEN << i * n_cols + j >> ELSE << i, j >>,
                  row0 |-> i * (size_y + 1) + 1,
                  row1 |-> i * (size_y + 1) + 1 + size_y,
                  col0 |-> j * (size_x + 1) + 1,
                  col1 |-> j * (size_x + 1) + 1 + size_x ]
    IN  [ asserted |-> L \in {3, 4} \/ (L = 5 /\ shape[L] = 3),
          is_colour |-> is_colour,
          is_vector |-> is_vector,
          output_shape |-> << n_rows * (size_y + boundary_width) + 1,
                              n_cols * (size_x + boundary_width) + 1 >>,
          index_pairs |-> SelectSeq([t \in 1 .. n_rows * n_cols |-> pair(t - 1)],
                                    LAMBDA q : q.included) ]

\* The canvas colour, and the pixel that scaled_data[pull] puts at the offset
\* (dy, dx) of a region: one value of a single-channel tile repeated on the
\* three channels (np.newaxis), or the three values at `pull` of a batch read
\* as colour, repeated over the region.
Fill == [t |-> "fill"]
Pixel(pull, dy, dx, is_colour) ==
    [t |-> "data", at |-> IF is_colour THEN pull ELSE pull \o << dy, dx >>]

\* The element types of a batch, and whether its values are all equal.
Contents == [dtype : {"float64", "float32", "int64"}, constant : BOOLEAN]

\* scale_data_to_8_bit, lines 84-90.  For values that are all equal the
\* divisor of line 89 is a numpy scalar zero.  Python's float division runs
\* (and raises ZeroDivisionError) only when the scalar's type derives from
\* Python's int, which numpy's int64 does where the C long has 64 bits;
\* otherwise numpy divides, warns and gives inf, and line 90 gives NaN.
ScaleData(c, long64) ==
    IF ~c.constant THEN [raised |-> "", val |-> "scaled"]
    ELSE IF c.dtype = "int64" /\ long64
      THEN [raised |-> "ZeroDivisionError", val |-> "none"]
    ELSE [raised |-> "", val |-> "nan"]

\* put_data_in_grid(data) for data of the given shape, lines 68-81, with the
\* outcome of line 78
PutDataInGridOf(shape, scaled) ==
    LET g == GridSlices(shape, None, DefaultBoundaryWidth)
        H == g.output_shape[1]
        W == g.output_shape[2]
        P == g.index_pairs
        covering(y, x) ==
            { q \in 1 .. Len(P) : /\ P[q].row0 <= y /\ y < P[q].row1
                                  /\ P[q].col0 <= x /\ x < P[q].col1 }
        latest(y, x) == CHOOSE q \in covering(y, x) : \A q2 \in covering(y, x) : q2 <= q
    IN  IF ~g.asserted THEN [raised |-> "AssertionError", shape |-> <<>>, canvas |-> <<>>]
        ELSE IF scaled.raised # ""
          THEN [raised |-> scaled.raised, shape |-> <<>>, canvas |-> <<>>]
        ELSE IF \E q \in 1 .. Len(P) : P[q].pull[1] >= shape[1]
          THEN [raised |-> "IndexError", shape |-> <<>>, canvas |-> <<>>]
        ELSE IF \E q \in 1 .. Len(P) : P[q].row1 > H \/ P[q].col1 > W
          THEN [raised |-> "ValueError", shape |-> <<>>, canvas |-> <<>>]
        ELSE [ raised |-> "",
               shape |-> << H, W, 3 >>,
               canvas |-> [ c \in (0 .. H - 1) \X (0 .. W - 1) |->
                              IF covering(c[1], c[2]) = {} THEN Fill
                              ELSE LET q == P[latest(c[1], c[2])]
                                   IN  Pixel(q.pull, c[1] - q.row0, c[2] - q.col0,
                                             g.is_colour) ] ]

\* A caller asks for the grid dimensions of the batch's length.
TileDims ==
    /\ tileRet = None
    /\ tileRet' = Tuple(VectorLengthToTileDims(batch[1]))
    /\ UNCHANGED << batch, gridRet, content, scaleRet, gridArgs, planRet >>
    /\ UNCHANGED << bufferVars, memoVars, compiledVars, symbolicVars, graphVars >>

\* A caller puts the batch in a grid.
PutDataInGrid ==
    /\ gridRet = None
    /\ \E long64 \in BOOLEAN : gridRet' = PutDataInGridOf(batch, ScaleData(content, long64))
    /\ UNCHANGED << batch, tileRet, content, scaleRet, gridArgs, planRet >>
    /\ UNCHANGED << bufferVars, memoVars, compiledVars, symbolicVars, graphVars >>

\* A caller scales the batch.
ScaleDataTo8Bit ==
    /\ scaleRet = None
    /\ \E long64 \in BOOLEAN : scaleRet' = ScaleData(content, long64)
    /\ UNCHANGED << batch, tileRet, gridRet, content, gridArgs, planRet >>
    /\ UNCHANGED << bufferVars, memoVars, compiledVars, symbolicVars, graphVars >>

\* The slice planner is called for the batch's shape.
PlanSlices ==
    /\ planRet = None
    /\ planRet' = GridSlices(batch, gridArgs.grid_shape, gridArgs.boundary_width)
    /\ UNCHANGED << batch, tileRet, gridRet, content, scaleRet, gridArgs >>
    /\ UNCHANGED << bufferVars, memoVars, compiledVars, symbolicVars, graphVars >>

\* put_data_in_grid's defaults, line 68
DefaultArgs == [grid_shape |-> None, boundary_width |-> DefaultBoundaryWidth]

\* The arguments the slice planner is called with.
PlanArgs ==
    [ grid_shape : {None} \cup { Tuple(<< r, c >>) : r \in 1 .. MaxGridSide,
                                                     c \in 1 .. MaxGridSide },
      boundary_width : 1 .. MaxBorder ]

\* A batch of n single-channel tiles of h by w values.
GridInit(n, h, w) ==
    /\ batch = << n, h, w >>
    /\ tileRet = None
    /\ gridRet = None
    /\ scaleRet = None
    /\ planRet = None

NextGrid == TileDims \/ PutDataInGrid \/ ScaleDataTo8Bit

NextPlan == PlanSlices

---------------------------------------------------------------------------
(* find_shared_ancestors, lines 495-505. *)

\* The nodes of an expression graph: stateful variables, other handles (with
\* the operation that produced them as only parent, or none) and operations
\* (with their inputs as parents).  A node's parents come before it.
SharedNode == [kind |-> "shared", parents |-> <<>>]
HandlesOf(g) == { i \in 1 .. Len(g) : g[i].kind # "apply" }
InputSeqs(g) ==
    UNION { [1 .. k -> HandlesOf(g)] : k \in 1 .. MaxInputs }
NodeChoices(g) ==
    { SharedNode, [kind |-> "var", parents |-> <<>>] }
    \cup { [kind |-> "var", parents |-> << a >>] :
              a \in { i \in 1 .. Len(g) : g[i].kind = "apply" } }
    \cup { [kind |-> "apply", parents |-> ins] : ins \in InputSeqs(g) }

RECURSIVE GraphsOf(_)
GraphsOf(k) ==
    IF k = 0 THEN { <<>> }
    ELSE UNION { { Append(g, nd) : nd \in NodeChoices(g) } : g \in GraphsOf(k - 1) }

\* sum(lists, []), line 505
RECURSIVE Sum(_)
Sum(lists) ==
    IF lists = <<>> THEN <<>> ELSE Head(lists) \o Sum(Tail(lists))

\* A variant that keeps the concatenated list as it is.
ListOfSet_Kept(items) == { items }

\* list(set(items)), line 505: the distinct items, in any order
ListOfSet(items) ==
    LET S == { items[i] : i \in DOMAIN items }
    IN  { q \in [1 .. Cardinality(S) -> S] : { q[i] : i \in DOMAIN q } = S }

\* find_shared_ancestors(variable), lines 502-505: the list returned for a
\* node of the graph g, and the concatenation it is made from.
RECURSIVE FindSharedAncestorsOf(_, _)
RECURSIVE FromParents(_, _)
FindSharedAncestorsOf(g, v) ==
    IF g[v].kind = "shared" THEN << v >>
    ELSE CHOOSE q \in ListOfSet(FromParents(g, v)) : TRUE

FromParents(g, v) ==
    Sum([i \in 1 .. Len(g[v].parents) |-> FindSharedAncestorsOf(g, g[v].parents[i])])

\* A caller asks for the stateful ancestors of the handle `query`.
FindSharedAncestors ==
    /\ found = None
    /\ IF graph[query].kind = "shared"
         THEN found' = List(<< query >>)
         ELSE \E q \in ListOfSet(FromParents(graph, query)) : found' = List(q)
    /\ UNCHANGED << graph, query >>
    /\ UNCHANGED << compiledVars, symbolicVars, plottingVars >>

\* No graph is being searched.
GraphIdle ==
    /\ graph = << SharedNode >>
    /\ query = 1
    /\ found = None

NextAncestors == FindSharedAncestors

---------------------------------------------------------------------------
(* The specifications. *)

vars == << compiledVars, symbolicVars, plottingVars, graphVars >>

\* No annotated definition is in use.
SymbolicIdle ==
    /\ objs = InitialObjs(scenario)
    /\ profile = 0
    /\ stack = <<>>
    /\ exc = ""
    /\ cur = Idle
    /\ result = Outcome("init", 0, "", None)

\* No batch is being tiled.
GridIdle ==
    /\ GridInit(1, 1, 1)
    /\ content = [dtype |-> "float64", constant |-> FALSE]
    /\ gridArgs = DefaultArgs

\* Nothing of plotting/data_conversion.py is in use.
PlottingIdle ==
    /\ BufferInit(1)
    /\ MemoInit
    /\ GridIdle

\* One compiled callable, used by its caller in any order.
InitCompiledCallable ==
    /\ InitCompiled
    /\ PlottingIdle
    /\ GraphIdle
    /\ scenario = [shape |-> fcn.shape, form |-> "function", nested |-> FALSE]
    /\ SymbolicIdle

SpecCompiled == InitCompiledCallable /\ [][NextCompiled]_vars

\* One compiled callable under either platform float type, called with
\* arguments of every kind.
InitTensor ==
    /\ Constructed
    /\ floatX \in FloatXs
    /\ PlottingIdle
    /\ GraphIdle
    /\ scenario = [shape |-> fcn.shape, form |-> "function", nested |-> FALSE]
    /\ SymbolicIdle

SpecTensor == InitTensor /\ [][NextTensor]_vars

\* One annotated definition, its adapters and views, used directly; the
\* callable compiled from it is left alone.
InitDefinition ==
    /\ InitCompiled
    /\ mode = "run"
    /\ cast_floats_to_floatX = TRUE
    /\ fcn.nout < 2
    /\ scenario \in Scenarios
    /\ scenario.shape = fcn.shape
    /\ SymbolicIdle
    /\ PlottingIdle
    /\ GraphIdle

SpecSymbolic == InitDefinition /\ [][NextSymbolic]_vars

\* The decorators module is not in use.
DecoratorsIdle ==
    /\ InitCompiled
    /\ mode = "run"
    /\ cast_floats_to_floatX = TRUE
    /\ fcn.shape = "stateless"
    /\ scenario = [shape |-> "stateless", form |-> "function", nested |-> FALSE]
    /\ SymbolicIdle

\* Nothing but the plotting functions is in use.
NoGraphInUse == DecoratorsIdle /\ GraphIdle

\* One RecordBuffer of some capacity, pushed to repeatedly.
InitBuffer ==
    /\ NoGraphInUse
    /\ \E n \in 1 .. MaxBufferLen : BufferInit(n)
    /\ MemoInit
    /\ GridIdle

SpecBuffer == InitBuffer /\ [][NextBuffer]_vars

\* One memoize-wrapped function, called repeatedly.
InitMemo ==
    /\ NoGraphInUse
    /\ BufferInit(1)
    /\ MemoInit
    /\ GridIdle

SpecMemo == InitMemo /\ [][NextMemo]_vars

\* One batch of single-channel tiles, measured and put in a grid.
InitGrid ==
    /\ NoGraphInUse
    /\ BufferInit(1)
    /\ MemoInit
    /\ \E n \in 1 .. MaxTiles, h \in 1 .. MaxSide, w \in 1 .. MaxSide : GridInit(n, h, w)
    /\ content \in Contents
    /\ gridArgs = DefaultArgs

SpecGrid == InitGrid /\ [][NextGrid]_vars

\* One batch of single-channel tiles handed to the slice planner.
InitPlan ==
    /\ NoGraphInUse
    /\ BufferInit(1)
    /\ MemoInit
    /\ \E n \in 1 .. MaxPlanTiles, h \in 1 .. MaxPlanSide, w \in 1 .. MaxPlanSide :
         GridInit(n, h, w)
    /\ content = [dtype |-> "float64", constant |-> FALSE]
    /\ gridArgs \in PlanArgs

SpecPlan == InitPlan /\ [][NextPlan]_vars

\* One expression graph and one of its handles, searched once.
InitAncestors ==
    /\ DecoratorsIdle
    /\ PlottingIdle
    /\ graph \in GraphsOf(MaxNodes)
    /\ query \in HandlesOf(graph)
    /\ found = None

SpecAncestors == InitAncestors /\ [][NextAncestors]_vars

---------------------------------------------------------------------------
(* Claims about the compiled callable (checked under SpecCompiled). *)

CompilingModes == {"run", "test_and_run", "omniscent"}

LastTypes ==
    << TensorType(DataToTensor(last.data, cast_floats_to_floatX,
                               mode \in TestModes, floatX)) >>

C2_DebugNeverCompiles ==
    mode = "debug" => (compiled_fcn = None /\ nCompiles = 0)

\* C3: after every call that returns normally, in every mode, each
\* registered callback has been invoked exactly once, in registration order.
C3_CallbacksAfterEveryCall ==
    (last.op = "call" /\ last.raised = "") => last.cbs = callbacks

\* C4: a registration attempted when a source is already registered,
\* or after a call has been made (in any mode, debug included), raises and
\* leaves the source unchanged.
C4_RegistrationOnlyBeforeFirstCall ==
    [][ (last'.op = "set_debug_variables"
           /\ (debug_variable_getter # None \/ nOk >= 1))
        => (last'.raised # "" /\ debug_variable_getter' = debug_variable_getter)
      ]_vars

\* C5: get_debug_values raises whenever no source was registered, or the
\* callable has not been invoked, or the mode is not 'omniscent'.
C5_RaisesUnlessOmniscent ==
    (last.op = "get_debug_values"
       /\ (debug_variable_getter = None \/ nCalls = 0 \/ mode # "omniscent"))
        => last.raised # ""

---------------------------------------------------------------------------
(* Claims about the annotated definitions and their views (SpecSymbolic). *)

\* The adapters a definition is used through directly.
Definitions == {"function", "method", "instance"}

AllHandles(args) ==
    args.t = "tuple" /\ \A i \in 1 .. Len(args.items) : args.items[i].t \in {"var", "shared"}

\* A finished direct invocation of an annotated definition.
DirectInvocation ==
    result.op = "invoke" /\ objs[result.target].origin \in Definitions

\* A finished invocation of the view `m` of a definition of class `cls`.
ViewInvocation(m, cls) ==
    /\ result.op = "invoke"
    /\ objs[result.target].origin = "view"
    /\ objs[result.target].fcn.m = m
    /\ objs[objs[result.target].fcn.o].cls = cls

\* The shape contract of each class of definition, as the specification
\* words it.
IsUpdatePair(up) ==
    /\ up.t \in {"tuple", "list"}
    /\ Len(up.items) = 2
    /\ up.items[1].t = "shared"
    /\ up.items[2].t \in {"var", "shared"}

IsUpdateList(v) ==
    v.t = "list" /\ \A i \in 1 .. Len(v.items) : IsUpdatePair(v.items[i])

Conforms(shape, v) ==
    IF shape = "stateless" THEN v.t \in {"var", "shared"}
    ELSE IF shape = "updater" THEN IsUpdateList(v)
    ELSE \/ v.t = "SymbolicReturn"
         \/ /\ v.t = "tuple"
            /\ Len(v.items) = 2
            /\ AllHandles(v.items[1])
            /\ IsUpdateList(v.items[2])

\* C6: once a call of an annotated definition (function, method adapter or
\* instance of a decorated class) has returned, locals() of that definition
\* returns the locals the definition had when that call returned.  (Stated
\* for definitions whose body invokes no other annotated definition.)
C6_LocalsAfterCall ==
    ( /\ DirectInvocation
      /\ ~scenario.nested
      /\ result.defSnap # None )
    => LocalsOf(objs[result.target].locals)
         = [raised |-> "", val |-> [t |-> "dict", d |-> result.defSnap]]

\* C7: a direct invocation in which some argument is not a symbolic handle
\* raises the format error and does not invoke the wrapped definition.
C7_NonHandleArgumentRejected ==
    ( /\ DirectInvocation
      /\ ~AllHandles(result.args) \/ result.kwargs = "other" )
    => ( result.raised = "SymbolicFormatError" /\ result.invocations = 0 )

\* C8: when a direct invocation with handle arguments gets a return value from
\* the definition, the value is returned unchanged if it conforms to the shape
\* and the format error is raised if it does not.
C8_ReturnValueChecked ==
    ( /\ DirectInvocation
      /\ AllHandles(result.args) /\ result.kwargs = "none"
      /\ result.defRet # None )
    => IF Conforms(objs[result.target].cls, result.defRet)
         THEN result.raised = "" /\ result.ret = result.defRet
         ELSE result.raised = "SymbolicFormatError"

\* C9: invoking the symbolic_standard view of a stateless definition with
\* handle arguments returns ((out,), []) where out is the handle the definition
\* returned.
C9_StandardViewOfStateless ==
    ( /\ ViewInvocation("_standard_function", "stateless")
      /\ AllHandles(result.args)
      /\ result.defRet # None
      /\ Conforms("stateless", result.defRet) )
    => ( /\ result.raised = ""
         /\ result.ret.t = "tuple"
         /\ Len(result.ret.items) = 2
         /\ result.ret.items[1] = [t |-> "tuple", items |-> << result.defRet >>]
         /\ result.ret.items[2] = [t |-> "list", items |-> <<>>] )

C9_Witness ==
    /\ ViewInvocation("_standard_function", "stateless")
    /\ scenario.form = "class"
    /\ result.defRet = Sym("r")
    /\ result.invocations = 1
    /\ result.ret.items[1].items[1] = Sym("r")

PairOf(v) ==
    IF v.t = "SymbolicReturn" THEN << v.outputs, v.updates >>
    ELSE IF v.t \in {"tuple", "list"} THEN v.items
    ELSE <<>>

\* v is a pair of a sequence of outputs and a sequence of updates.
DeclaresPair(v) ==
    /\ Len(PairOf(v)) = 2
    /\ PairOf(v)[1].t \in {"tuple", "list"}
    /\ PairOf(v)[2].t \in {"tuple", "list"}

OneOutputNoUpdates(v) ==
    /\ DeclaresPair(v)
    /\ Len(PairOf(v)[1].items) = 1
    /\ Len(PairOf(v)[2].items) = 0

\* C11: invoking the symbolic_stateless view of a standard definition raises
\* whenever the definition returns a number of outputs other than one, or at
\* least one update.
C11_StatelessViewNeedsOneOutput ==
    ( /\ ViewInvocation("_stateless_function", "standard")
      /\ AllHandles(result.args)
      /\ result.defRet # None
      /\ DeclaresPair(result.defRet)
      /\ ~OneOutputNoUpdates(result.defRet) )
    => result.raised # ""

\* C11 witness: the definition returned two outputs and no update, and the
\* view's invocation raised.
C11_Witness ==
    /\ ViewInvocation("_stateless_function", "standard")
    /\ result.invocations = 1
    /\ result.defRet = Tuple(<< Tuple(<< Sym("r"), Sym("r2") >>), List(<<>>) >>)
    /\ result.raised = "AssertionError"

\* The receiver a direct invocation of the adapter `u` passes to the wrapped
\* definition: the instance the method was accessed on, the instance of the
\* decorated class, or none (0) for a function.
ReceiverOf(u) == IF objs[u].fcn.k = "self" THEN u ELSE objs[u].instance

\* C12: for a standard definition annotated as a function, a method or a
\* callable class, invoking its symbolic_stateless view with handle arguments
\* calls the definition with the receiver and arguments of a direct
\* invocation, and when the definition returns one output and no update the
\* view returns that output.
C12_StatelessViewCallsDefinition ==
    ( /\ ViewInvocation("_stateless_function", "standard")
      /\ AllHandles(result.args)
      /\ ~scenario.nested )
    => /\ result.invocations = 1
       /\ result.defSnap # None =>
            /\ result.defSnap.recv = ReceiverOf(objs[result.target].fcn.o)
            /\ result.defSnap.args = result.args
       /\ ( result.defRet # None /\ Conforms("standard", result.defRet)
            /\ OneOutputNoUpdates(result.defRet) )
          => ( result.raised = "" /\ result.ret = PairOf(result.defRet)[1].items[1] )


\* C13: constructing a SymbolicReturn from outputs that are not a tuple of
\* handles, or updates that are not a list of (stateful variable, handle)
\* pairs, raises SymbolicFormatError; from valid arguments it constructs an
\* object that iterates as (outputs, updates).
C13_SymbolicReturnValidates ==
    result.op = "SymbolicReturn" =>
        IF /\ result.args.items[1].t = "tuple"
           /\ AllHandles(result.args.items[1])
           /\ IsUpdateList(result.args.items[2])
          THEN /\ result.raised = ""
               /\ SymbolicReturnIter(result.ret) = result.args.items
          ELSE result.raised = "SymbolicFormatError"


---------------------------------------------------------------------------
(* Claims about plotting/data_conversion.py. *)

Min(a, b) == IF a < b THEN a ELSE b

\* C14: after k >= 1 pushes to a RecordBuffer of capacity N the value returned
\* has length N, its last min(k, N) entries are the last min(k, N) samples
\* pushed, in push order, and its first N - min(k, N) entries are NaN.
C14_BufferReturnsLatestOldestFirst ==
    Len(pushed) >= 1 =>
        LET N == buffer_len
            k == Len(pushed)
            m == Min(k, N)
        IN  /\ DOMAIN pushRet.at = 0 .. N - 1
            /\ \A j \in 0 .. m - 1 : pushRet.at[N - m + j] = pushed[k - m + 1 + j]
            /\ \A j \in 0 .. N - m - 1 : pushRet.at[j] = NaN

\* C14 witness: capacity 3 after the pushes 1, 2, 2, 1: the first sample has
\* been overwritten.
C14_Witness ==
    /\ buffer_len = 3
    /\ pushed = << Num(1), Num(2), Num(2), Num(1) >>
    /\ pushRet.at[0] = Num(2) /\ pushRet.at[1] = Num(2) /\ pushRet.at[2] = Num(1)
    /\ ix = 1


\* C15 as stated: once a memoize-wrapped function has been called with an
\* argument tuple, the underlying function has been invoked exactly once for
\* that tuple.
C15_InvokedOncePerTuple ==
    \A a \in MemoArgs :
        memoLog[a].calls >= 1 => memoLog[a].invocations = 1

\* C15 amended: for a hashable tuple the underlying function is invoked on
\* every call until an invocation returns normally; the value of that
\* invocation is stored, is never replaced or evicted, and is what every later
\* call with the tuple returns without invoking the function.  A call with an
\* unhashable tuple raises TypeError and invokes nothing.
C15_InvokedUntilFirstReturn ==
    /\ \A a \in MemoArgs :
         LET L == memoLog[a]
         IN  /\ (a \in DOMAIN lookup) <=> (L.first # None)
             /\ a \in DOMAIN lookup => lookup[a] = L.first
             /\ ~Hashable(a) => (L.invocations = 0 /\ a \notin DOMAIN lookup)
             /\ Hashable(a) =>
                  /\ L.invocations = L.failures + (IF L.first # None THEN 1 ELSE 0)
                  /\ L.first = None => L.invocations = L.calls
    /\ memoRet # None =>
         /\ ~Hashable(memoRet.args) => memoRet.raised = "TypeError"
         /\ (Hashable(memoRet.args) /\ memoRet.raised = "")
              => memoRet.ret = memoLog[memoRet.args].first
         /\ (memoLog[memoRet.args].first # None /\ memoRet.invoked)
              => memoLog[memoRet.args].invocations
                   = memoLog[memoRet.args].failures + 1

\* C15 witness: the first call with (1,) raised, the second stored a value,
\* and the third returned it without invoking the function.
C15_Witness ==
    /\ memoLog[<< Num(1) >>].calls = 3
    /\ memoLog[<< Num(1) >>].failures = 1
    /\ memoLog[<< Num(1) >>].invocations = 2
    /\ memoRet.args = << Num(1) >>
    /\ ~memoRet.invoked
    /\ memoRet.ret = lookup[<< Num(1) >>]


\* A frame of _call_fcn that has invoked the wrapped definition is on the stack.
RawInvocationActive ==
    \E i \in 1 .. Len(stack) : stack[i].kind = "_call_fcn" /\ stack[i].pc = "finally"

\* C18: with omniscience enabled the trace hook is installed only while a raw
\* invocation is in progress; whenever a raw invocation finishes, by a return
\* or by an exception, the hook is uninstalled; between invocations of
\* annotated definitions no hook is installed.
C18_HookOnlyDuringRawInvocation ==
    /\ [](profile # 0 => RawInvocationActive)
    /\ [](stack = <<>> => profile = 0)
    /\ [][(/\ stack # <<>> /\ Top.kind = "_call_fcn" /\ Top.pc = "finally"
           /\ Len(stack') < Len(stack)) => profile' = 0]_vars

C18_Witness ==
    /\ stack = <<>>
    /\ profile = 0
    /\ result.op = "invoke"
    /\ result.raised = "Exception"
    /\ result.invocations >= 1

\* C19: when an annotated definition A invokes an annotated definition B in
\* its body and returns, the snapshot stored for A after the outer call is
\* not the locals A had at its return; likewise the snapshot stored for a
\* symbolic_standard adapter of a stateless or updater definition is not the
\* locals of the wrapped call at its return.
C19_NestedSnapshotIsNotOwnLocals ==
    /\ ( /\ scenario.nested
         /\ result.op = "invoke"
         /\ objs[result.target].fcn = DefRef("main")
         /\ result.defSnap # None )
       => objs[result.target].locals # result.defSnap
    /\ \A cls \in {"stateless", "updater"} :
         ( ViewInvocation("_standard_function", cls) /\ result.raised = "" )
         => objs[result.target].locals
              # Snap("_standard_function", objs[result.target].fcn.o, result.args, 0)

\* C19 witness: a nesting definition returned, and the snapshot stored for
\* it is that of a frame of the inner call's argument check.
C19_Witness ==
    /\ scenario.nested
    /\ result.op = "invoke"
    /\ objs[result.target].fcn = DefRef("main")
    /\ result.raised = ""
    /\ result.defSnap # None
    /\ objs[result.target].locals # None
    /\ objs[result.target].locals.frame # "main"

\* C20: in debug mode every call invokes the wrapped definition once and,
\* before returning, writes each declared update's sample value onto its
\* stateful variable, so that after the call every updated variable holds the
\* sample value that call computed.
C20_DebugEveryCallPropagates ==
    [][ (mode = "debug" /\ nCalls' = nCalls + 1)
        => /\ nBuilds' = nBuilds + 1
           /\ last'.raised = ""
                => \A i \in 1 .. Len(fcn.ups) :
                      shared'[fcn.ups[i]] = UpdateValue(fcn.ups[i], last'.data, shared) ]_vars

\* The adapter `o` is the one being invoked, directly or through a view of it.
BeingInvoked(o) ==
    /\ cur.op = "invoke"
    /\ \/ cur.target = o
       \/ /\ objs[cur.target].fcn.k = "bound"
          /\ objs[cur.target].fcn.o = o

\* C22: each access of an annotated method on an instance yields a new
\* adapter bound to that instance and holding no snapshot, whatever earlier
\* adapters of the method hold; invoking it passes that instance as the
\* receiver of the wrapped definition; and an invocation changes the snapshot
\* of no adapter obtained by another access.
C22_FreshAdapterPerAccess ==
    /\ []( ( result.op = "access" /\ stack = <<>> )
           => /\ result.target = Len(objs)
              /\ objs[result.target].instance \in Instances
              /\ objs[result.target].fcn = objs[1].fcn
              /\ objs[result.target].locals = None )
    /\ []( ( /\ result.op = "invoke"
             /\ objs[result.target].origin = "method"
             /\ AllHandles(result.args) /\ result.kwargs = "none" )
           => /\ result.invocations = 1
              /\ result.defSnap # None
                   => result.defSnap.recv = objs[result.target].instance )
    /\ [][ /\ ( result' # result /\ result'.op = "access" )
                => Len(objs') = Len(objs) + 1
           /\ \A o \in 1 .. Len(objs) :
                ( /\ objs[o].origin = "method"
                  /\ o <= Len(objs')
                  /\ objs'[o] # objs[o] )
                => BeingInvoked(o) ]_vars

\* C22 witness: a method was accessed on one instance and the adapter
\* invoked; then it was accessed on the other instance.
C22_Witness ==
    /\ stack = <<>>
    /\ result.op = "access"
    /\ objs[result.target].locals = None
    /\ \E o \in 1 .. Len(objs) :
         /\ objs[o].origin = "method"
         /\ objs[o].instance # objs[result.target].instance
         /\ objs[o].locals # None
         /\ objs[o].locals.recv = objs[o].instance

\* The region the specification assigns to tile k of a batch of h by w tiles
\* laid out in rows of `cols`.
TileRows(k, h, cols) == LET r == k \div cols IN r * (h + 1) + 1 .. r * (h + 1) + h
TileCols(k, w, cols) == LET c == k % cols IN c * (w + 1) + 1 .. c * (w + 1) + w

\* C16: for n single-channel h by w tiles, put_data_in_grid returns a canvas of
\* shape (rows*(h+1)+1, cols*(w+1)+1, 3), (rows, cols) the tile dimensions of
\* n, in which tile k fills its region with its own values, the regions lie
\* inside the canvas and are pairwise disjoint, and every other pixel is the
\* fill colour.
C16_TilesInGrid ==
    gridRet # None =>
        LET n == batch[1]
            h == batch[2]
            w == batch[3]
            rows == VectorLengthToTileDims(n)[1]
            cols == VectorLengthToTileDims(n)[2]
            H == rows * (h + 1) + 1
            W == cols * (w + 1) + 1
        IN  /\ gridRet.raised = ""
            /\ gridRet.shape = << H, W, 3 >>
            /\ \A k \in 0 .. n - 1 :
                 /\ TileRows(k, h, cols) \subseteq 0 .. H - 1
                 /\ TileCols(k, w, cols) \subseteq 0 .. W - 1
                 /\ \A y \in TileRows(k, h, cols), x \in TileCols(k, w, cols) :
                      gridRet.canvas[<< y, x >>]
                        = [t |-> "data",
                           at |-> << k, y - (k \div cols) * (h + 1) - 1,
                                     x - (k % cols) * (w + 1) - 1 >>]
                 /\ \A k2 \in 0 .. n - 1 :
                      k2 # k => \/ TileRows(k, h, cols) \cap TileRows(k2, h, cols) = {}
                                \/ TileCols(k, w, cols) \cap TileCols(k2, w, cols) = {}
            /\ \A y \in 0 .. H - 1, x \in 0 .. W - 1 :
                 (\A k \in 0 .. n - 1 :
                     y \notin TileRows(k, h, cols) \/ x \notin TileCols(k, w, cols))
                 => gridRet.canvas[<< y, x >>] = Fill

RealOutputs(data) == TestValues(ExtractOutputs(fcn, FcnValue(fcn)).outputs, data)

\* The symbolic entries of what the registered source returns.
Retained == FilterDebugVariables(CallGetter(debug_variable_getter, FcnLocals).val.d)

\* C21: with a registered debug source, a call fails while the source has no
\* symbolic entry; every call that returns hands back exactly the
\* definition's real outputs, wrapped as without a source, and stores a debug
\* snapshot whose keys are the names of the retained symbolic entries, each
\* mapped to the value of its own handle for that call.
C21_DebugSnapshotAndOutputs ==
    ( last.op = "call" /\ debug_variable_getter # None )
    => /\ DOMAIN Retained = {} => ( last.raised # "" /\ compiled_fcn = None )
       /\ last.raised = ""
            => /\ DOMAIN Retained # {}
               /\ last.ret = RealOutputs(last.data)
               /\ debug_values
                    = [t |-> "dict",
                       d |-> [k \in DOMAIN Retained |-> Eval(Retained[k], last.data)]]

\* C21 witness: a second call of a single-output callable whose source
\* returns two symbolic entries.
C21_Witness ==
    /\ last.op = "call" /\ last.raised = ""
    /\ debug_variable_getter # None
    /\ nOk >= 2
    /\ fcn.shape = "stateless"
    /\ last.ret = Eval(FcnValue(fcn), last.data)
    /\ DOMAIN debug_values.d = {"a", "b"}

\* The batch is read as a flat vector of single-channel tiles, and the grid
\* is the derived one or an explicit one with room for every tile.
FlatBatchWithRoom ==
    /\ planRet # None
    /\ planRet.is_vector
    /\ gridArgs.grid_shape # None
         => gridArgs.grid_shape.items[1] * gridArgs.grid_shape.items[2] >= batch[1]

\* C23: for a flat batch of n tiles and any grid with room for them, the plan
\* holds exactly n pairs, whose source indices are 0..n-1, each once; no pair
\* is planned for a cell whose flat index is n or more.
C23_PlanHasOnePairPerTile ==
    FlatBatchWithRoom
    => LET P == planRet.index_pairs
       IN  /\ Len(P) = batch[1]
           /\ \A k \in 0 .. batch[1] - 1 :
                Cardinality({ q \in 1 .. Len(P) : P[q].pull = << k >> }) = 1
           /\ \A q \in 1 .. Len(P) : P[q].pull[1] < batch[1]

\* C24: for every border width b >= 1 the first tile row and column start b
\* pixels from the canvas edge, adjacent tiles are b pixels apart, every
\* destination lies inside the canvas of shape (rows*(h+b)+1, cols*(w+b)+1),
\* and destinations are pairwise disjoint.
C24_BorderSeparatesTiles ==
    FlatBatchWithRoom
    => LET P == planRet.index_pairs
           b == gridArgs.boundary_width
           h == batch[2]
           w == batch[3]
           grid == IF gridArgs.grid_shape # None THEN gridArgs.grid_shape.items
                   ELSE VectorLengthToTileDims(batch[1])
       IN  /\ planRet.output_shape = << grid[1] * (h + b) + 1, grid[2] * (w + b) + 1 >>
           /\ \A q \in 1 .. Len(P) :
                /\ P[q].row0 = b + P[q].i * (h + b) /\ P[q].row1 = P[q].row0 + h
                /\ P[q].col0 = b + P[q].j * (w + b) /\ P[q].col1 = P[q].col0 + w
                /\ P[q].row1 <= planRet.output_shape[1]
                /\ P[q].col1 <= planRet.output_shape[2]
                /\ \A q2 \in 1 .. Len(P) :
                     q2 # q => \/ P[q].row1 <= P[q2].row0 \/ P[q2].row1 <= P[q].row0
                               \/ P[q].col1 <= P[q2].col0 \/ P[q2].col1 <= P[q].col0

\* C25: for a batch whose values are all equal, scale_data_to_8_bit returns
\* no result but raises, and so does put_data_in_grid.
C25_ConstantDataRaises ==
    content.constant
    => /\ scaleRet # None => scaleRet.raised # ""
       /\ gridRet # None => gridRet.raised # ""

---------------------------------------------------------------------------
(* Claims about find_shared_ancestors (SpecAncestors). *)

\* The nodes reachable from v through the parent relation in at most k steps.
RECURSIVE Within(_, _)
Within(v, k) ==
    IF k = 0 THEN { v }
    ELSE Within(v, k - 1)
         \cup UNION { { graph[u].parents[i] : i \in DOMAIN graph[u].parents } :
                       u \in Within(v, k - 1) }
SharedAncestors(v) ==
    { u \in 1 .. Len(graph) :
        /\ graph[u].kind = "shared"
        /\ \E k \in 0 .. Len(graph) : u \in Within(v, k) }

\* C26: find_shared_ancestors(v) returns exactly the stateful variables
\* reachable from v through the parent relation, each once: a stateful
\* variable yields itself alone, a handle without stateful ancestor yields an
\* empty result.
C26_ExactlyTheSharedAncestors ==
    found # None
    => /\ { found.items[i] : i \in DOMAIN found.items } = SharedAncestors(query)
       /\ Len(found.items) = Cardinality(SharedAncestors(query))
       /\ graph[query].kind = "shared" => found.items = << query >>
       /\ SharedAncestors(query) = {} => found.items = <<>>

\* C26 witness: the handle was produced by an operation that takes the same
\* stateful variable twice, and the variable is returned once.
C26_Witness ==
    /\ found # None
    /\ Len(found.items) = 1
    /\ graph[query].kind = "var"
    /\ \E a \in 1 .. Len(graph) :
         /\ graph[query].parents = << a >>
         /\ Len(graph[a].parents) = 2
         /\ graph[a].parents[1] = graph[a].parents[2]
         /\ graph[graph[a].parents[1]].kind = "shared"
         /\ found.items = << graph[a].parents[1] >>

---------------------------------------------------------------------------
(* Claims about the input handles (SpecTensor). *)

FloatKinds == {"float16", "float32", "float64"}

\* The element kind the specification gives the handle of an argument.
ElementKind(data) ==
    IF cast_floats_to_floatX /\ data.dtype \in FloatKinds THEN floatX
    ELSE IF data.py = "int" THEN "int64"
    ELSE IF data.py = "float" THEN "float64"
    ELSE data.dtype

\* C27: on the first call the input handle's rank is the argument's
\* dimensionality and its element kind is the platform float type for every
\* float scalar and float-valued array when casting is enabled, int64 for a
\* plain integer, float64 for a float scalar when casting is disabled, and
\* the argument's own element kind otherwise; the handle carries the argument
\* as sample value exactly in the modes test_and_run, debug and omniscent.
C27_InputHandleOfArgument ==
    ( nCalls = 1 /\ input_handles # None )
    => LET h == input_handles.items[1]
       IN  /\ h.ndim = last.data.ndim
           /\ h.dtype = ElementKind(last.data)
           /\ h.test_value
                = IF mode \in {"test_and_run", "debug", "omniscent"} THEN last.data
                  ELSE None


====
